---- MODULE Spec2Model ----
(***************************************************************************)
(* A model of the three pieces of logic of TESScut_ExoMAST_Tutorial.ipynb: *)
(*   find_index      (nearest timestamp lookup, cells 42-43)               *)
(*   json_to_table   (JSON fields/data to a typed table, cell 23)          *)
(*   make_animation  (frame range of the animation, cells 45-46)           *)
(* Each has a specification of its own: SpecIndex, SpecTable, SpecAnim.    *)
(*                                                                         *)
(* Timestamps are in tenths of a day (BTJD * 10), so 1333.9 is 13339.      *)
(* Text is a sequence of one-character strings, so that strip(), the "in"  *)
(* test and the regular expression are computed character by character.    *)
(* Indices are 0-based, as in Python; At(s, i) reads s[i].                 *)
(***************************************************************************)
EXTENDS Integers, Sequences, FiniteSets

VARIABLES
    TIME,        \* cutout_table['TIME'], the timestamp column find_index reads
    btjd,        \* <<argument of the start call, argument of the end call>>
    start,       \* outcome of start = find_index(...)
    end,         \* outcome of end = find_index(...)
    ipc,         \* position in cell 43: "loaded", "started", "ended", "raised"
    fields,      \* json_to_table's argument fields
    data,        \* json_to_table's argument data
    data_table,  \* outcome of json_to_table(fields, data)
    tpc,         \* "idle" before the call, "returned" / "raised" after it
    anim,        \* make_animation's arguments and the locals it computes
    shown,       \* frame indices animate() has read in this pass, in order
    apc          \* "idle", "built", "playing", "done"

idxVars == <<TIME, btjd, start, end, ipc>>
tblVars == <<fields, data, data_table, tpc>>
aniVars == <<anim, shown, apc>>
vars == <<TIME, btjd, start, end, ipc, fields, data, data_table, tpc, anim, shown, apc>>

\* ------------------------------------------------------------------ bounds
MaxLen == 3      \* longest generic TIME column
MaxTime == 3     \* generic timestamps are 0..MaxTime

\* ------------------------------------------------------------- 0-based reads
At(s, i) == s[i + 1]

\* ------------------------------------------------------------- find_index

\* np.abs with the sign kept: a plausible slip
AbsSigned(x) == x

\* np.abs
Abs(x) == IF x < 0 THEN -x ELSE x

\* np.abs(cutout_table['TIME'] - btjd): the element-wise distances
AbsDiff(ts, q) == [k \in 1..Len(ts) |-> Abs(ts[k] - q)]

\* a scan that lets a later equal element win: the last minimum
ArgMinScanLast(d, k, best) ==
    LET RECURSIVE go(_, _)
        go(j, b) == IF j > Len(d) THEN b
                    ELSE go(j + 1, IF d[j] <= d[b] THEN j ELSE b)
    IN go(k, best)

\* the scan of argmax: a later element wins when strictly larger
ArgMaxScan(d, k, best) ==
    LET RECURSIVE go(_, _)
        go(j, b) == IF j > Len(d) THEN b
                    ELSE go(j + 1, IF d[j] > d[b] THEN j ELSE b)
    IN go(k, best)

\* numpy's argmin scan: left to right, a later element wins only when strictly
\* smaller, so the first minimum is kept (1-based positions here)
ArgMinScan(d, k, best) ==
    LET RECURSIVE go(_, _)
        go(j, b) == IF j > Len(d) THEN b
                    ELSE go(j + 1, IF d[j] < d[b] THEN j ELSE b)
    IN go(k, best)

\* an argmin that answers 0 on an empty array instead of raising
ArgMinNoRaise(d) ==
    IF Len(d) = 0 THEN [ok |-> TRUE, idx |-> 0, exc |-> ""]
    ELSE [ok |-> TRUE, idx |-> ArgMinScan(d, 2, 1) - 1, exc |-> ""]

\* ndarray.argmin(): ValueError ("attempt to get argmin of an empty sequence")
\* on an empty array, else the 0-based index of the first minimum
ArgMin(d) ==
    IF Len(d) = 0 THEN [ok |-> FALSE, idx |-> -1, exc |-> "ValueError"]
    ELSE [ok |-> TRUE, idx |-> ArgMinScan(d, 2, 1) - 1, exc |-> ""]

\* find_index(btjd), reading the global cutout_table['TIME']
find_index(ts, q) == ArgMin(AbsDiff(ts, q))

NoOutcome == [ok |-> FALSE, idx |-> -1, exc |-> "unset"]

\* the values of the json_to_table and make_animation state while they are not run
NoTable == [ok |-> FALSE, exc |-> "unset", at |-> "unset", cols |-> <<>>]
NoAnim ==
    [data_array |-> <<>>, start_frame |-> 0,
     end_frame_arg |-> [given |-> FALSE, v |-> 0],
     vmin_arg |-> [given |-> FALSE, v |-> 0],
     vmax_arg |-> [given |-> FALSE, v |-> 0],
     end_frame |-> 0, vmin |-> 0, vmax |-> 0, num_frames |-> 0]

\* The timestamp columns of the examples: [1330, 1332, 1334, 1336] and
\* [1333.0, 1333.5, 1334.0, 1334.5, 1335.0], in tenths of a day.
ExampleA == <<13300, 13320, 13340, 13360>>
ExampleB == <<13330, 13335, 13340, 13345, 13350>>

TimeColumns ==
    UNION {[1..n -> 0..MaxTime] : n \in 0..MaxLen} \cup {ExampleA, ExampleB}

\* 1334 and 1335 are the arguments of cell 43; the others are the examples' queries
Queries == ((-1)..(MaxTime + 1)) \cup {13310, 13339, 13340, 13349, 13350, 20000}

\* cutout_table = cutout_hdu[1].data : the column as the service returned it
InitIndex ==
    /\ TIME \in TimeColumns
    /\ btjd = <<0, 0>>
    /\ start = NoOutcome
    /\ end = NoOutcome
    /\ ipc = "loaded"
    /\ fields = <<>> /\ data = <<>> /\ data_table = NoTable /\ tpc = "off"
    /\ anim = NoAnim /\ shown = <<>> /\ apc = "off"

\* start = find_index(q)
FindStart(q) ==
    /\ ipc = "loaded"
    /\ start' = find_index(TIME, q)
    /\ btjd' = <<q, btjd[2]>>
    /\ ipc' = IF find_index(TIME, q).ok THEN "started" ELSE "raised"
    /\ UNCHANGED <<TIME, end>>

\* end = find_index(q)
FindEnd(q) ==
    /\ ipc = "started"
    /\ end' = find_index(TIME, q)
    /\ btjd' = <<btjd[1], q>>
    /\ ipc' = IF find_index(TIME, q).ok THEN "ended" ELSE "raised"
    /\ UNCHANGED <<TIME, start>>

\* a Python slice col[s:e], which leaves the end frame out
HalfOpenSlice(col, s, e) == SubSeq(col, s + 1, e)

\* the frames start..end, both included, of a column aligned with TIME
InclusiveSlice(col, s, e) == SubSeq(col, s + 1, e + 1)

NextIndex ==
    \/ \E q \in Queries : FindStart(q) /\ UNCHANGED tblVars /\ UNCHANGED aniVars
    \/ \E q \in Queries : FindEnd(q) /\ UNCHANGED tblVars /\ UNCHANGED aniVars

SpecIndex == InitIndex /\ [][NextIndex]_vars

\* ---------------------------------------------------------- json_to_table
MaxCols == 2     \* longest fields list
MaxRows == 2     \* longest data list

SetMin(S) == CHOOSE x \in S : \A y \in S : x <= y
SetMax(S) == CHOOSE x \in S : \A y \in S : x >= y

\* a strip() that only strips on the left
StripLeft(s) ==
    LET keep == {i \in 1..Len(s) : s[i] # " "}
    IN IF keep = {} THEN <<>> ELSE SubSeq(s, SetMin(keep), Len(s))

\* str.strip(): leading and trailing whitespace removed
Strip(s) ==
    LET keep == {i \in 1..Len(s) : s[i] # " "}
    IN IF keep = {} THEN <<>> ELSE SubSeq(s, SetMin(keep), SetMax(keep))

\* sub in s
Contains(s, sub) ==
    \E i \in 1..(Len(s) - Len(sub) + 1) : SubSeq(s, i, i + Len(sub) - 1) = sub

DigitChars == <<"0", "1", "2", "3", "4", "5", "6", "7", "8", "9">>
IsDigit(c) == \E k \in 1..Len(DigitChars) : DigitChars[k] = c
DigitVal(c) == (CHOOSE k \in 1..Len(DigitChars) : DigitChars[k] = c) - 1

\* int("12"): the value of a non-empty run of digits
ParseInt(ds) ==
    LET RECURSIVE go(_, _)
        go(k, acc) == IF k > Len(ds) THEN acc
                      ELSE go(k + 1, acc * Len(DigitChars) + DigitVal(ds[k]))
    IN go(1, 0)

\* str(n) for n >= 0
IntToStr(n) ==
    LET RECURSIVE go(_)
        go(m) == IF m < Len(DigitChars) THEN <<DigitChars[m + 1]>>
                 ELSE Append(go(m \div Len(DigitChars)), DigitChars[(m % Len(DigitChars)) + 1])
    IN go(n)

\* whether float(s) / int(s) accepts the text s (here: a non-empty run of digits)
IsNumeric(s) == Len(s) > 0 /\ \A k \in 1..Len(s) : IsDigit(s[k])

VARCHAR == <<"v", "a", "r", "c", "h", "a", "r">>
REAL == <<"r", "e", "a", "l">>
FLOAT == <<"f", "l", "o", "a", "t">>
INT == <<"i", "n", "t">>
NONE == <<"N", "o", "n", "e">>

\* length of the run of digits of s that starts at position p
DigitRun(s, p) ==
    LET RECURSIVE go(_)
        go(j) == IF j <= Len(s) /\ IsDigit(s[j]) THEN go(j + 1) ELSE j - p
    IN go(p)

\* the pattern varchar\((\d)\): one digit only
RxMatchAtOneDigit(s, i) ==
    LET ds == i + Len(VARCHAR) + 1
    IN IF /\ ds + 1 <= Len(s)
          /\ SubSeq(s, i, ds - 1) = VARCHAR \o <<"(">>
          /\ IsDigit(s[ds])
          /\ s[ds + 1] = ")"
       THEN [found |-> TRUE, group |-> <<s[ds]>>]
       ELSE [found |-> FALSE, group |-> <<>>]

\* rx = re.compile(r"varchar\((\d+)\)") matched at position i: "varchar(", the
\* longest run of digits (at least one), then ")"; group is group(1)
RxMatchAt(s, i) ==
    LET ds == i + Len(VARCHAR) + 1
        run == DigitRun(s, ds)
    IN IF /\ ds <= Len(s)
          /\ SubSeq(s, i, ds - 1) = VARCHAR \o <<"(">>
          /\ run >= 1
          /\ ds + run <= Len(s)
          /\ s[ds + run] = ")"
       THEN [found |-> TRUE, group |-> SubSeq(s, ds, ds + run - 1)]
       ELSE [found |-> FALSE, group |-> <<>>]

\* rx.search(atype): the leftmost match, or None (found = FALSE)
RxSearch(s) ==
    LET hits == {i \in 1..Len(s) : RxMatchAt(s, i).found}
    IN IF hits = {} THEN [found |-> FALSE, group |-> <<>>]
       ELSE RxMatchAt(s, SetMin(hits))

\* the two ifs of the loop body: a type containing "varchar" becomes "U" + group(1)
\* (match is None without a parenthesised width: AttributeError on match.group),
\* and "real" becomes "float"; anything else is left as it is
ResolveAtype(atype) ==
    IF Contains(atype, VARCHAR)
    THEN IF RxSearch(atype).found
         THEN [ok |-> TRUE, exc |-> "", atype |-> <<"U">> \o RxSearch(atype).group]
         ELSE [ok |-> FALSE, exc |-> "AttributeError", atype |-> atype]
    ELSE IF atype = REAL THEN [ok |-> TRUE, exc |-> "", atype |-> FLOAT]
    ELSE [ok |-> TRUE, exc |-> "", atype |-> atype]

\* numpy's resolution of a dtype string: "float", "int", "U<width>"; another
\* name is "not understood" (TypeError). kind is numpy's dtype.kind.
NpDtype(atype) ==
    IF atype = FLOAT THEN [ok |-> TRUE, kind |-> "f", width |-> 0]
    ELSE IF atype = INT THEN [ok |-> TRUE, kind |-> "i", width |-> 0]
    ELSE IF Len(atype) >= 2 /\ atype[1] = "U" /\ IsNumeric(Tail(atype))
         THEN [ok |-> TRUE, kind |-> "U", width |-> ParseInt(Tail(atype))]
    ELSE [ok |-> FALSE, kind |-> "", width |-> 0]

\* the cells of a column and the raw JSON scalars, all of one shape
Cell(k, n, s) == [k |-> k, n |-> n, s |-> s]
PyNone == Cell("none", 0, <<>>)
Absent == Cell("absent", 0, <<>>)
NaN == Cell("nan", 0, <<>>)

\* s[:w]
Truncate(s, w) == IF Len(s) > w THEN SubSeq(s, 1, w) ELSE s

\* numpy's conversion of one Python scalar to an element of dtype dt:
\*   float: None is nan, a number is itself, text is parsed or ValueError
\*   int:   None is TypeError, a number is itself, text is parsed or ValueError
\*   U<w>:  str(value) cut to w characters ("None" for None)
ConvertCell(v, dt) ==
    IF dt.kind = "f" THEN
        IF v.k = "none" THEN [ok |-> TRUE, exc |-> "", cell |-> NaN]
        ELSE IF v.k = "num" THEN [ok |-> TRUE, exc |-> "", cell |-> Cell("float", v.n, <<>>)]
        ELSE IF IsNumeric(v.s) THEN [ok |-> TRUE, exc |-> "", cell |-> Cell("float", ParseInt(v.s), <<>>)]
        ELSE [ok |-> FALSE, exc |-> "ValueError", cell |-> PyNone]
    ELSE IF dt.kind = "i" THEN
        IF v.k = "none" THEN [ok |-> FALSE, exc |-> "TypeError", cell |-> PyNone]
        ELSE IF v.k = "num" THEN [ok |-> TRUE, exc |-> "", cell |-> Cell("int", v.n, <<>>)]
        ELSE IF IsNumeric(v.s) THEN [ok |-> TRUE, exc |-> "", cell |-> Cell("int", ParseInt(v.s), <<>>)]
        ELSE [ok |-> FALSE, exc |-> "ValueError", cell |-> PyNone]
    ELSE
        IF v.k = "none" THEN [ok |-> TRUE, exc |-> "", cell |-> Cell("str", 0, Truncate(NONE, dt.width))]
        ELSE IF v.k = "num" THEN [ok |-> TRUE, exc |-> "", cell |-> Cell("str", 0, Truncate(IntToStr(v.n), dt.width))]
        ELSE [ok |-> TRUE, exc |-> "", cell |-> Cell("str", 0, Truncate(v.s, dt.width))]

\* np.array(values, dtype=atype): the dtype is resolved first (TypeError when not
\* understood), then the values are converted in order; the first one that does
\* not convert raises
NpArray(values, atype) ==
    LET dt == NpDtype(atype)
        bad == {j \in 1..Len(values) : ~ConvertCell(values[j], dt).ok}
    IN IF ~dt.ok
       THEN [ok |-> FALSE, exc |-> "TypeError", at |-> "dtype", kind |-> "", width |-> 0, vals |-> <<>>]
       ELSE IF bad # {}
       THEN [ok |-> FALSE, exc |-> ConvertCell(values[SetMin(bad)], dt).exc, at |-> "value",
             kind |-> "", width |-> 0, vals |-> <<>>]
       ELSE [ok |-> TRUE, exc |-> "", at |-> "", kind |-> dt.kind, width |-> dt.width,
             vals |-> [j \in 1..Len(values) |-> ConvertCell(values[j], dt).cell]]

\* x.get(col, None)
Get(x, col) ==
    IF col \in DOMAIN x /\ x[col].k # "absent" THEN x[col] ELSE PyNone

\* data_table[col] = array: a new name appends a column, an existing name has
\* its column replaced where it stands
SetItem(tbl, col, arr) ==
    LET new == [name |-> col, kind |-> arr.kind, width |-> arr.width, vals |-> arr.vals]
        at == {k \in 1..Len(tbl) : tbl[k].name = col}
    IN IF at = {} THEN Append(tbl, new)
       ELSE [k \in 1..Len(tbl) |-> IF k \in at THEN new ELSE tbl[k]]

\* the exception leaves json_to_table: no table reaches the caller
Raised(exc, at) == [ok |-> FALSE, exc |-> exc, at |-> at, cols |-> <<>>]

\* the for loop of json_to_table from the k-th field on, tbl being data_table so far
BuildFrom(fs, dat, k0, tbl0) ==
    LET RECURSIVE go(_, _)
        go(k, tbl) ==
            IF k > Len(fs) THEN [ok |-> TRUE, exc |-> "", at |-> "", cols |-> tbl]
            ELSE LET col == Strip(fs[k].colname)
                     r == ResolveAtype(fs[k].datatype)
                     arr == NpArray([j \in 1..Len(dat) |-> Get(dat[j], col)], r.atype)
                 IN IF ~r.ok THEN Raised(r.exc, "dtype")
                    ELSE IF ~arr.ok THEN Raised(arr.exc, arr.at)
                    ELSE go(k + 1, SetItem(tbl, col, arr))
    IN go(k0, tbl0)

\* json_to_table(fields, data)
json_to_table(fs, dat) == BuildFrom(fs, dat, 1, <<>>)

\* column names as the service may send them, and the keys of the rows
ColNames == {<<" ", "a">>, <<"b", " ">>}
Keys == {<<"a">>, <<"b">>}

\* declared types: "varchar(3)", "varchar(12)", "real", "int", "varchar", "text"
DeclTypes ==
    { VARCHAR \o <<"(", "3", ")">>, VARCHAR \o <<"(", "1", "2", ")">>, REAL, INT,
      VARCHAR, <<"t", "e", "x", "t">> }

\* raw JSON scalars: the number 7, the text "abcd"; Absent: the key is not there
RawValues == {Cell("num", 7, <<>>), Cell("str", 0, <<"a", "b", "c", "d">>)}

FieldEntries == [colname : ColNames, datatype : DeclTypes]
\* rows: key a is absent, 7 or "abcd"; key b is absent or 7
RawRecords == {r \in [Keys -> RawValues \cup {Absent}] : r[<<"b">>].k # "str"}
Schemas == UNION {[1..n -> FieldEntries] : n \in 0..MaxCols}
RowLists == UNION {[1..n -> RawRecords] : n \in 0..MaxRows}

InitTable ==
    /\ fields = <<>> /\ data = <<>> /\ data_table = NoTable /\ tpc = "idle"
    /\ TIME = <<>> /\ btjd = <<0, 0>> /\ start = NoOutcome /\ end = NoOutcome
    /\ ipc = "off"
    /\ anim = NoAnim /\ shown = <<>> /\ apc = "off"

\* weird_lightcurve = json_to_table(data_dict['fields'], data_dict['data'])
JsonToTable(fs, dat) ==
    /\ tpc = "idle"
    /\ fields' = fs
    /\ data' = dat
    /\ data_table' = json_to_table(fs, dat)
    /\ tpc' = IF data_table'.ok THEN "returned" ELSE "raised"

NextTable ==
    /\ tpc = "idle"
    /\ \E fs \in Schemas, dat \in RowLists :
           JsonToTable(fs, dat) /\ UNCHANGED idxVars /\ UNCHANGED aniVars

SpecTable == InitTable /\ [][NextTable]_vars

\* ---------------------------------------------------------- make_animation
MaxFrames == 3   \* longest data_array

\* an optional argument: None when not given
PyArg(given, v) == [given |-> given, v |-> v]
ArgNone == PyArg(FALSE, 0)

\* Python's "not x" for an optional number: true for None and for 0
Not(x) == ~x.given \/ x.v = 0

\* np.min(data_array), np.max(data_array); a frame is one pixel here
NpMin(d) == SetMin({d[k] : k \in 1..Len(d)})
NpMax(d) == SetMax({d[k] : k \in 1..Len(d)})

\* the locals of make_animation after its three "if not" defaults and
\* num_frames = end_frame - start_frame + 1
make_animation(d, sf, ef, vmn, vmx) ==
    LET e == IF Not(ef) THEN Len(d) - 1 ELSE ef.v
    IN [data_array |-> d, start_frame |-> sf,
        end_frame_arg |-> ef, vmin_arg |-> vmn, vmax_arg |-> vmx,
        vmin |-> IF Not(vmn) THEN NpMin(d) ELSE vmn.v,
        vmax |-> IF Not(vmx) THEN NpMax(d) ELSE vmx.v,
        end_frame |-> e,
        num_frames |-> e - sf + 1]

\* frames of one pixel each; the pixel values of the model
Pixels == {-1, 2}
DataArrays == UNION {[1..n -> Pixels] : n \in 1..MaxFrames}

\* vmax=500 is the call of cell 46
EndArgs(d) == {ArgNone} \cup {PyArg(TRUE, v) : v \in 0..(Len(d) - 1)}
VminArgs == {ArgNone, PyArg(TRUE, 0), PyArg(TRUE, 1)}
VmaxArgs == {ArgNone, PyArg(TRUE, 0), PyArg(TRUE, 500)}

InitAnim ==
    /\ anim = NoAnim /\ shown = <<>> /\ apc = "idle"
    /\ TIME = <<>> /\ btjd = <<0, 0>> /\ start = NoOutcome /\ end = NoOutcome
    /\ ipc = "off"
    /\ fields = <<>> /\ data = <<>> /\ data_table = NoTable /\ tpc = "off"

\* make_animation(data_array, start_frame, end_frame, vmin, vmax) up to its return
MakeAnimation(d, sf, ef, vmn, vmx) ==
    /\ apc = "idle"
    /\ anim' = make_animation(d, sf, ef, vmn, vmx)
    /\ shown' = <<>>
    /\ apc' = "built"

\* FuncAnimation calls animate(i, ...) for the next i of range(num_frames);
\* animate reads binarytab[i + start]
Animate ==
    /\ apc \in {"built", "playing"}
    /\ Len(shown) < anim.num_frames
    /\ shown' = Append(shown, Len(shown) + anim.start_frame)
    /\ apc' = "playing"
    /\ UNCHANGED anim

\* range(num_frames) is exhausted: the pass is over
PassDone ==
    /\ apc \in {"built", "playing"}
    /\ Len(shown) >= anim.num_frames
    /\ apc' = "done"
    /\ UNCHANGED <<anim, shown>>

NextAnim ==
    \/ /\ apc = "idle"
       /\ \E d \in DataArrays :
            \E sf \in 0..(Len(d) - 1), ef \in EndArgs(d), vmn \in VminArgs, vmx \in VmaxArgs :
                MakeAnimation(d, sf, ef, vmn, vmx)
       /\ UNCHANGED idxVars /\ UNCHANGED tblVars
    \/ Animate /\ UNCHANGED idxVars /\ UNCHANGED tblVars
    \/ PassDone /\ UNCHANGED idxVars /\ UNCHANGED tblVars

SpecAnim == InitAnim /\ [][NextAnim]_vars

\* ==================================================================== claims
\* -------------------------------------------------------------- find_index

\* the calls of cell 43 made so far, as <<query, outcome>> pairs
Calls ==
    (IF ipc \in {"started", "ended"} \/ (ipc = "raised" /\ start.exc # "unset")
        THEN {<<btjd[1], start>>} ELSE {})
    \cup (IF ipc = "ended" \/ (ipc = "raised" /\ end.exc # "unset")
        THEN {<<btjd[2], end>>} ELSE {})

\* the distance the claims speak of, written out on its own
Dist(a, b) == IF a >= b THEN a - b ELSE b - a

NonDecreasing(ts) == \A k \in 1..(Len(ts) - 1) : ts[k] <= ts[k + 1]

\* C1: on a non-empty TIME column, sorted or not, find_index returns an index
\* whose timestamp is at minimal distance from the query, and among the indices
\* at that minimal distance it returns the smallest; on [1330, 1332, 1334, 1336]
\* the query 1331 gives 0.
C1_NearestFirstMinimum ==
    \A c \in Calls :
        Len(TIME) > 0 =>
            /\ c[2].ok
            /\ c[2].idx \in 0..(Len(TIME) - 1)
            /\ \A j \in 0..(Len(TIME) - 1) :
                   Dist(At(TIME, c[2].idx), c[1]) <= Dist(At(TIME, j), c[1])
            /\ \A j \in 0..(c[2].idx - 1) :
                   Dist(At(TIME, j), c[1]) > Dist(At(TIME, c[2].idx), c[1])
            /\ (TIME = ExampleA /\ c[1] = 13310 => c[2].idx = 0)

\* C1 witness: a tie between two indices was decided in favour of the first
C1_Witness ==
    /\ ipc = "ended"
    /\ TIME = ExampleA /\ btjd[1] = 13310 /\ start.idx = 0
    /\ Dist(At(TIME, 0), 13310) = Dist(At(TIME, 1), 13310)

\* C2 as stated: on a non-empty non-decreasing TIME column a query below the first
\* timestamp gives index 0 and a query above the last timestamp gives the last
\* index, len - 1.
C2_Original ==
    \A c \in Calls :
        (Len(TIME) > 0 /\ NonDecreasing(TIME)) =>
            /\ c[2].ok
            /\ (c[1] < TIME[1] => c[2].idx = 0)
            /\ (c[1] > TIME[Len(TIME)] => c[2].idx = Len(TIME) - 1)

\* the smallest 0-based index holding value v
FirstIndexOf(ts, v) ==
    (CHOOSE k \in 1..Len(ts) : ts[k] = v /\ \A j \in 1..(k - 1) : ts[j] # v) - 1

\* C2 amended: on a non-empty non-decreasing TIME column an out-of-range query
\* is not an error; below the first timestamp the result is index 0, above the
\* last timestamp it is the smallest index holding the last timestamp's value,
\* which is len - 1 exactly when the last timestamp is not a repeat of the one
\* before it.
C2_ClosestEndpointFirstHolder ==
    \A c \in Calls :
        (Len(TIME) > 0 /\ NonDecreasing(TIME)) =>
            /\ c[2].ok
            /\ (c[1] < TIME[1] => c[2].idx = 0)
            /\ (c[1] > TIME[Len(TIME)] =>
                   /\ c[2].idx = FirstIndexOf(TIME, TIME[Len(TIME)])
                   /\ (c[2].idx = Len(TIME) - 1
                        <=> (Len(TIME) = 1 \/ TIME[Len(TIME) - 1] < TIME[Len(TIME)])))

\* C2 witness: a query above a repeated last timestamp, and one below the first
C2_Witness ==
    /\ ipc = "ended"
    /\ Len(TIME) = 3 /\ NonDecreasing(TIME) /\ TIME[2] = TIME[3] /\ TIME[1] < TIME[2]
    /\ btjd[1] < TIME[1] /\ start.idx = 0
    /\ btjd[2] > TIME[3] /\ end.idx = 1

\* C3 as stated: on [1333.0, 1333.5, 1334.0, 1334.5, 1335.0] the start index for
\* 1333.9 is 2 and the end index for 1334.9 is 3, and the inclusive slice has the
\* 2 elements [1334.0, 1334.5].
C3_Original ==
    (ipc = "ended" /\ TIME = ExampleB /\ btjd = <<13339, 13349>>) =>
        /\ start.idx = 2
        /\ end.idx = 3
        /\ InclusiveSlice(TIME, start.idx, end.idx) = <<13340, 13345>>

\* C3 amended: on [1333.0, 1333.5, 1334.0, 1334.5, 1335.0] the start index for
\* 1333.9 is 2 and the end index for 1334.9 is 4 (1335.0 is 0.1 away, 1334.5 is
\* 0.4 away), and the inclusive slice has the 3 elements [1334.0, 1334.5, 1335.0].
C3_FrameRangeExample ==
    (ipc = "ended" /\ TIME = ExampleB /\ btjd = <<13339, 13349>>) =>
        /\ start.ok /\ start.idx = 2
        /\ end.ok /\ end.idx = 4
        /\ InclusiveSlice(TIME, start.idx, end.idx) = <<13340, 13345, 13350>>
        /\ Len(InclusiveSlice(TIME, start.idx, end.idx)) = end.idx - start.idx + 1

\* C3 witness: both calls of the example were made
C3_Witness ==
    ipc = "ended" /\ TIME = ExampleB /\ btjd = <<13339, 13349>> /\ end.ok

\* C4: on an empty TIME column find_index fails with the empty-sequence error
\* (numpy's ValueError) for every query, and returns no index.
C4_EmptyRaises ==
    \A c \in Calls :
        Len(TIME) = 0 => (~c[2].ok /\ c[2].exc = "ValueError" /\ c[2].idx = -1)

\* C4 witness: find_index was called on an empty column and the cell stopped there
C4_Witness ==
    ipc = "raised" /\ Len(TIME) = 0 /\ ~start.ok /\ start.exc = "ValueError"

\* ----------------------------------------------------------- json_to_table

\* the storage type the three rules give a declared type: "varchar(N)" somewhere
\* in it, N >= 1, is text of width N; exactly "real" is floating point; any other
\* text is handed unchanged to the native resolver
RuleOf(t) ==
    LET widths == {n \in 1..20 : Contains(t, VARCHAR \o <<"(">> \o IntToStr(n) \o <<")">>)}
    IN IF widths # {} THEN [ok |-> TRUE, kind |-> "U", width |-> SetMin(widths)]
       ELSE IF t = REAL THEN [ok |-> TRUE, kind |-> "f", width |-> 0]
       ELSE NpDtype(t)

\* the rules' answer for each declared type of the model, worked out once
RuleTable == [t \in DeclTypes |-> RuleOf(t)]
RuleStorage(t) == RuleTable[t]

Called == tpc \in {"returned", "raised"}
AllRecognized == \A k \in 1..Len(fields) : RuleStorage(fields[k].datatype).ok

\* a column name with its blanks removed
NoBlanks(name) == SelectSeq(name, LAMBDA c : c # " ")
DistinctNames ==
    \A k, l \in 1..Len(fields) :
        k # l => NoBlanks(fields[k].colname) # NoBlanks(fields[l].colname)

\* the raw value row j holds for the k-th declared column (Absent when it has none)
RawAt(j, k) == data[j][NoBlanks(fields[k].colname)]

\* the first w characters of s
Prefix(s, w) == [i \in 1..(IF Len(s) < w THEN Len(s) ELSE w) |-> s[i]]

\* the cell a raw value of a row shows as in a column of the given storage type
ShowsAs(raw, st, cell) ==
    IF raw.k = "num"
    THEN IF st.kind = "U" THEN cell.k = "str" /\ cell.s = Prefix(IntToStr(raw.n), st.width)
         ELSE cell.k = (IF st.kind = "f" THEN "float" ELSE "int") /\ cell.n = raw.n
    ELSE IF raw.k = "str"
    THEN st.kind = "U" /\ cell.k = "str" /\ cell.s = Prefix(raw.s, st.width)
    ELSE (st.kind = "f" /\ cell.k = "nan")
         \/ (st.kind = "U" /\ cell.k = "str" /\ cell.s = Prefix(NONE, st.width))

\* the returned table has one column per schema entry, in schema order, keyed by
\* the stripped names, each with one entry per row, in row order
SchemaShaped ==
    /\ Len(data_table.cols) = Len(fields)
    /\ \A k \in 1..Len(fields) :
        LET st == RuleStorage(fields[k].datatype)
        IN /\ data_table.cols[k].name = NoBlanks(fields[k].colname)
           /\ Len(data_table.cols[k].vals) = Len(data)
           /\ \A j \in 1..Len(data) :
                  ShowsAs(RawAt(j, k), st, data_table.cols[k].vals[j])

\* C5 as stated: for every schema of recognized types and every row sequence,
\* json_to_table returns a table with len(schema) columns in schema order, keyed
\* by the stripped names, each with len(rows) entries in row order.
C5_Original ==
    (Called /\ AllRecognized) => (data_table.ok /\ SchemaShaped)

\* C5 amended: for every schema of recognized types whose stripped names are
\* pairwise distinct, and every row sequence, json_to_table either raises on a
\* value that does not convert to its column's type, or returns a table with
\* len(schema) columns in schema order, keyed by the stripped names, each with
\* len(rows) entries in row order; with no rows it always returns that table.
C5_SchemaFidelity ==
    (Called /\ AllRecognized /\ DistinctNames) =>
        /\ data_table.ok \/ data_table.at = "value"
        /\ data = <<>> => data_table.ok
        /\ data_table.ok => SchemaShaped

\* C5 witness: a two-column table of two different rows was returned, its
\* names stripped
C5_Witness ==
    /\ tpc = "returned" /\ Len(fields) = 2 /\ Len(data) = 2 /\ DistinctNames
    /\ fields[1].colname = <<"b", " ">> /\ data_table.cols[1].name = <<"b">>
    /\ data_table.cols[2].name = <<"a">>
    /\ data[1] # data[2]

\* whether a raw value that is present converts to the storage type
PresentConverts(raw, st) ==
    raw.k = "absent" \/ st.kind = "U" \/ raw.k = "num" \/ IsNumeric(raw.s)

\* C6 as stated: a row that lacks a declared column never makes json_to_table
\* raise and never shifts rows; whatever the column's storage type, the table is
\* returned with the fill value at that row and column and every other cell
\* holding the value of its own row.
C6_MissingKeyFill ==
    (/\ Called /\ AllRecognized /\ DistinctNames
     /\ \A k \in 1..Len(fields) :
            LET st == RuleStorage(fields[k].datatype)
            IN \A j \in 1..Len(data) : PresentConverts(RawAt(j, k), st))
    => (data_table.ok /\ SchemaShaped)

\* the column of data_table keyed by a name
ColumnOf(name) ==
    data_table.cols[CHOOSE c \in 1..Len(data_table.cols) : data_table.cols[c].name = name]

\* the schema entry that decides the column of a name: the last one naming it
Decides(k) ==
    \A l \in (k + 1)..Len(fields) :
        NoBlanks(fields[l].colname) # NoBlanks(fields[k].colname)

\* C7: the storage type of every column comes from its declared type alone, by
\* the three rules: "varchar(N)" inside it gives text of width N, with longer
\* values cut to N characters; "real" gives a floating-point column whatever the
\* values; any other declared type is passed unchanged to the native resolver.
\* A type failure is raised only for a declared type the rules do not resolve,
\* and always when the first declared type is one.
C7_TypeRules ==
    Called =>
        /\ data_table.ok =>
            \A k \in 1..Len(fields) :
                Decides(k) =>
                    LET c == ColumnOf(NoBlanks(fields[k].colname))
                        st == RuleStorage(fields[k].datatype)
                    IN /\ st.ok /\ c.kind = st.kind /\ c.width = st.width
                       /\ \A j \in 1..Len(c.vals) :
                            /\ c.kind = "f" => c.vals[j].k \in {"float", "nan"}
                            /\ c.kind = "i" => c.vals[j].k = "int"
                            /\ c.kind = "U" =>
                                 /\ c.vals[j].k = "str"
                                 /\ Len(c.vals[j].s) <= st.width
                                 /\ RawAt(j, k).k = "str" =>
                                        c.vals[j].s = Prefix(RawAt(j, k).s, st.width)
        /\ data_table.at = "dtype" => ~AllRecognized
        /\ (Len(fields) > 0 /\ ~RuleStorage(fields[1].datatype).ok) =>
               (~data_table.ok /\ data_table.at = "dtype")

\* C7 witness: a table with a varchar(12) column, a varchar(3) column holding
\* "abcd" cut to "abc", was returned
C7_Witness ==
    /\ tpc = "returned" /\ Len(fields) = 2 /\ Len(data) = 1
    /\ fields[1].datatype = VARCHAR \o <<"(", "1", "2", ")">>
    /\ fields[2].datatype = VARCHAR \o <<"(", "3", ")">>
    /\ fields[2].colname = <<" ", "a">>
    /\ data[1][<<"a">>].s = <<"a", "b", "c", "d">>
    /\ data_table.cols[1].width = 12
    /\ data_table.cols[2].vals[1].s = <<"a", "b", "c">>

\* no row lacks the key of a column declared "int" (the case that raises on its own)
NoAbsentInIntColumn ==
    \A k \in 1..Len(fields), j \in 1..Len(data) :
        RawAt(j, k).k = "absent" => fields[k].datatype # INT

\* C8 as stated: when any schema entry's declared type is unrecognized or
\* malformed, json_to_table fails with the type-mapping failure, not a value
\* conversion failure, and returns no table, not even a partial one. (Stated for
\* the inputs where no key of an "int" column is absent.)
C8_TypeErrorFailFast ==
    (Called /\ ~AllRecognized /\ NoAbsentInIntColumn) =>
        (~data_table.ok /\ data_table.at = "dtype" /\ data_table.cols = <<>>)

\* ---------------------------------------------------------- make_animation

Built == apc \in {"built", "playing", "done"}
LastFrame == Len(anim.data_array) - 1

\* C9: make_animation uses every optional argument exactly as given and takes a
\* default only for an omitted one: end_frame is the last frame only when not
\* passed, vmin / vmax are the data minimum / maximum only when not passed; an
\* explicit end_frame = 0, vmin = 0 or vmax = 0 is honoured.
C9_ArgumentsHonoured ==
    Built =>
        /\ anim.end_frame = (IF anim.end_frame_arg.given THEN anim.end_frame_arg.v
                             ELSE LastFrame)
        /\ anim.vmin = (IF anim.vmin_arg.given THEN anim.vmin_arg.v
                        ELSE NpMin(anim.data_array))
        /\ anim.vmax = (IF anim.vmax_arg.given THEN anim.vmax_arg.v
                        ELSE NpMax(anim.data_array))

\* the frames a..b in order
FrameRun(a, b) == [k \in 1..(b - a + 1) |-> a + k - 1]

\* C10: with 0 <= start_frame <= end_frame <= len - 1 passed, one pass shows
\* exactly the frames start_frame .. end_frame, in order, each once, and never
\* reads an index outside that range; with end_frame < start_frame the frame
\* count is not positive and nothing is reordered (no frame is shown).
C10_PassShowsRange ==
    (Built /\ anim.end_frame_arg.given) =>
        LET a == anim.start_frame
            b == anim.end_frame_arg.v
        IN /\ (a <= b /\ b <= LastFrame) =>
                /\ \A k \in 1..Len(shown) : shown[k] \in a..b
                /\ apc = "done" => shown = FrameRun(a, b)
           /\ b < a => (anim.num_frames <= 0 /\ shown = <<>>)

\* C10 but for an end_frame of 0: the frames shown when the end frame passed is
\* not 0 (kept to tell the two failures of make_animation apart)
C10_ExceptEndZero ==
    (anim.end_frame_arg.given /\ anim.end_frame_arg.v # 0) => C10_PassShowsRange

\* ------------------------------------------------- find_index, both calls

\* C11: on a non-empty non-decreasing TIME column (repeats allowed), queries in
\* order give indices in order: with start query <= end query, start <= end; so
\* end < start arises only from reversed queries or an unsorted column.
C11_MonotoneOnOrdered ==
    (ipc = "ended" /\ Len(TIME) > 0 /\ NonDecreasing(TIME)) =>
        /\ start.ok /\ end.ok
        /\ btjd[1] <= btjd[2] => start.idx <= end.idx
        /\ end.idx < start.idx => btjd[1] > btjd[2]

\* C11 witness: ordered queries on a sorted column with a repeat, the first one
\* a tie between two timestamps, gave two different indices in order
C11_Witness ==
    /\ ipc = "ended" /\ Len(TIME) = 3 /\ NonDecreasing(TIME)
    /\ TIME[2] = TIME[3] /\ TIME[1] < TIME[2]
    /\ btjd[1] < btjd[2]
    /\ Dist(TIME[1], btjd[1]) = Dist(TIME[2], btjd[1])
    /\ start.idx = 0 /\ end.idx = 1

\* a reversed range on an unsorted column with ordered queries: the case the
\* claim leaves out does happen
C11_ReversedOnUnsorted ==
    /\ ipc = "ended" /\ ~NonDecreasing(TIME) /\ btjd[1] <= btjd[2]
    /\ end.idx < start.idx

====
